---- MODULE Spec2Model ----
(***************************************************************************)
(* Model of the intent-classifier training and evaluation scripts:         *)
(*   - train_intent_classifier.py: EarlyStopping, train_fold,              *)
(*     run_cross_validation, main, evaluate (confidence threshold)         *)
(*   - evaluate_adversarial.py, evaluate_combined.py: threshold fallback   *)
(*   - convert_to_onnx.py, convert_to_tflite.py: converted-model checks    *)
(*                                                                         *)
(* Specifications: Spec (training with finite losses), SpecDiverge (an     *)
(* epoch's loss may be non-finite), SpecCorpus (load_data, the stratified  *)
(* split, then training), SpecSplit (load_data and the split for every     *)
(* fold count), SpecEval (each evaluation script on one dataset),          *)
(* SpecCombined (the evaluators on several dataset files).  The fold       *)
(* partition, classification_report and confusion_matrix are scikit-learn  *)
(* calls; they are modelled by what the called routine computes.           *)
(*                                                                         *)
(* Validation accuracies are fractions in [0,1]; they are represented on   *)
(* an integer grid whose unit is ScoreUnit = 1/2000, so that min_delta =   *)
(* 0.001 is MinDelta = 2 units and an improvement smaller than min_delta   *)
(* is representable.  Model parameters are opaque; the parameters a fold   *)
(* holds after its e-th training epoch are the token <<fold, e>>.          *)
(***************************************************************************)
EXTENDS Integers, Naturals, Sequences, FiniteSets, TLC

\* ---- bounds of the exploration ----
MaxFolds == 2
MaxEpochsBound == 4
MaxPatience == 2
ScoreMax == 3
MaxExamples == 2
MaxCorpus == 4
MaxSplits == 3
MaxPooled == 4
\* confidences and thresholds are multiples of 1/ConfScale
ConfScale == 2

\* ---- program constants ----
\* EarlyStopping.__init__ min_delta=0.001, in score units of 1/2000
MinDelta == 2
\* best_score = None / best_model_state = None
None == -1
NoState == <<>>

Scores == 0..ScoreMax

\* train_epoch's avg_loss = total_loss / len(dataloader) is a float: a finite
\* number, or nan/inf once a batch loss has diverged
FiniteLoss == "finite"
NonFiniteLoss == "nan"
Losses == {FiniteLoss, NonFiniteLoss}

\* Config.NUM_LABELS, Config.LABEL2ID, Config.ID2LABEL
NUM_LABELS == 6
LABEL2ID == [save |-> 0, search |-> 1, reminder |-> 2, cancel_all |-> 3,
             cancel_specific |-> 4, unclear |-> 5]
ID2LABEL == [i \in 0..(NUM_LABELS - 1) |->
                CHOOSE l \in DOMAIN LABEL2ID : LABEL2ID[l] = i]
LabelIds == 0..(NUM_LABELS - 1)

\* torch.max(softmax(logits)) over NUM_LABELS classes is positive and <= 1
Confidences == 1..ConfScale
Thresholds == 0..ConfScale

Min(a, b) == IF a <= b THEN a ELSE b

Max(a, b) == IF a >= b THEN a ELSE b

RECURSIVE SeqMax(_)
SeqMax(s) == IF Len(s) = 0 THEN None
             ELSE Max(s[Len(s)], SeqMax(SubSeq(s, 1, Len(s) - 1)))

VARIABLES
    \* configuration (Config class attributes)
    EARLY_STOPPING_PATIENCE, MAX_EPOCHS, N_FOLDS,
    \* control
    pc,
    \* run_cross_validation locals
    fold, fold_results, best_fold, best_fold_acc, best_model_state, checkpoints,
    \* fold indices train_fold has been called with, in call order
    train_fold_calls,
    \* train_fold locals
    epoch, model, early_stopping, history, best_val_acc,
    \* history["train_loss"]: per epoch, whether train_epoch's average loss is finite
    train_loss_history,
    \* epoch (1-based) at which early_stopping.best_score was last assigned
    best_score_epoch,
    \* main
    best_model_pt, test_model,
    \* cv_df["label"], cv_df["label_id"]; the fold each corpus row is validated in
    cv_label, cv_label_id, test_folds,
    \* evaluation scripts: Config.CONFIDENCE_THRESHOLD, the dataset's true
    \* label ids, the classifier's raw outputs, the script run and its result
    CONFIDENCE_THRESHOLD, labels, predictions, confidences, script, result,
    \* evaluate_combined: number of rows of each loaded dataset, in load order
    dataset_sizes

cfgVars == <<EARLY_STOPPING_PATIENCE, MAX_EPOCHS, N_FOLDS>>
cvVars == <<fold, fold_results, best_fold, best_fold_acc, best_model_state, checkpoints,
            train_fold_calls>>
foldVars == <<epoch, model, early_stopping, history, best_val_acc, best_score_epoch,
              train_loss_history>>
mainVars == <<best_model_pt, test_model>>
corpusVars == <<cv_label, cv_label_id, test_folds>>
evalVars == <<CONFIDENCE_THRESHOLD, labels, predictions, confidences, dataset_sizes,
              script, result>>
vars == <<cfgVars, pc, cvVars, foldVars, mainVars, evalVars, corpusVars>>

\* ---- EarlyStopping ----

\* EarlyStopping.__init__
EarlyStoppingInit(p) ==
    [patience |-> p, min_delta |-> MinDelta, counter |-> 0,
     best_score |-> None, early_stop |-> FALSE, best_model_state |-> NoState]

\* EarlyStopping.__call__ with the patience test written `counter > patience`
EarlyStoppingCall_LatePatience(es, score, state_dict) ==
    IF es.best_score = None
    THEN [es EXCEPT !.best_score = score, !.best_model_state = state_dict]
    ELSE IF score < es.best_score + es.min_delta
    THEN [es EXCEPT !.counter = es.counter + 1,
                    !.early_stop = IF es.counter + 1 > es.patience
                                   THEN TRUE ELSE es.early_stop]
    ELSE [es EXCEPT !.best_score = score, !.best_model_state = state_dict,
                    !.counter = 0]

\* EarlyStopping.__call__ that keeps the old snapshot on an improvement
EarlyStoppingCall_NoSnapshot(es, score, state_dict) ==
    IF es.best_score = None
    THEN [es EXCEPT !.best_score = score, !.best_model_state = state_dict]
    ELSE IF score < es.best_score + es.min_delta
    THEN [es EXCEPT !.counter = es.counter + 1,
                    !.early_stop = IF es.counter + 1 >= es.patience
                                   THEN TRUE ELSE es.early_stop]
    ELSE [es EXCEPT !.best_score = score, !.counter = 0]

\* EarlyStopping.__call__ that does not reset the counter on an improvement
EarlyStoppingCall_NoReset(es, score, state_dict) ==
    IF es.best_score = None
    THEN [es EXCEPT !.best_score = score, !.best_model_state = state_dict]
    ELSE IF score < es.best_score + es.min_delta
    THEN [es EXCEPT !.counter = es.counter + 1,
                    !.early_stop = IF es.counter + 1 >= es.patience
                                   THEN TRUE ELSE es.early_stop]
    ELSE [es EXCEPT !.best_score = score, !.best_model_state = state_dict]

\* EarlyStopping.__call__ with the improvement test written
\* `score <= best_score + min_delta`
EarlyStoppingCall_StrictImprovement(es, score, state_dict) ==
    IF es.best_score = None
    THEN [es EXCEPT !.best_score = score, !.best_model_state = state_dict]
    ELSE IF score <= es.best_score + es.min_delta
    THEN [es EXCEPT !.counter = es.counter + 1,
                    !.early_stop = IF es.counter + 1 >= es.patience
                                   THEN TRUE ELSE es.early_stop]
    ELSE [es EXCEPT !.best_score = score, !.best_model_state = state_dict,
                    !.counter = 0]

\* EarlyStopping.__call__(val_accuracy, model): the object after the call
EarlyStoppingCall(es, score, state_dict) ==
    IF es.best_score = None
    THEN [es EXCEPT !.best_score = score, !.best_model_state = state_dict]
    ELSE IF score < es.best_score + es.min_delta
    THEN [es EXCEPT !.counter = es.counter + 1,
                    !.early_stop = IF es.counter + 1 >= es.patience
                                   THEN TRUE ELSE es.early_stop]
    ELSE [es EXCEPT !.best_score = score, !.best_model_state = state_dict,
                    !.counter = 0]

\* ---- train_fold ----

\* train_fold prologue: fresh model, optimizer, EarlyStopping, history
TrainFoldStart ==
    /\ pc = "cv_loop"
    /\ fold < N_FOLDS
    /\ model' = <<fold, 0>>
    /\ early_stopping' = EarlyStoppingInit(EARLY_STOPPING_PATIENCE)
    /\ history' = <<>>
    /\ train_loss_history' = <<>>
    /\ best_val_acc' = 0
    /\ epoch' = 0
    /\ best_score_epoch' = 0
    /\ train_fold_calls' = Append(train_fold_calls, fold)
    /\ pc' = "epoch_loop"
    /\ UNCHANGED <<evalVars, cfgVars, corpusVars, mainVars, fold, fold_results, best_fold,
                   best_fold_acc, best_model_state, checkpoints>>

\* the epoch loop without the `break` on early_stopping's return value
TrainFoldEpoch_NoBreak(train_loss, val_acc) ==
    /\ pc = "epoch_loop"
    /\ epoch < MAX_EPOCHS
    /\ LET trained == <<fold, epoch + 1>>
           es == EarlyStoppingCall(early_stopping, val_acc, trained)
       IN /\ model' = trained
          /\ history' = Append(history, val_acc)
          /\ train_loss_history' = Append(train_loss_history, train_loss)
          /\ best_val_acc' = IF val_acc > best_val_acc THEN val_acc ELSE best_val_acc
          /\ early_stopping' = es
          /\ best_score_epoch' = IF es.best_score # early_stopping.best_score
                                 THEN epoch + 1 ELSE best_score_epoch
          /\ epoch' = epoch + 1
          /\ pc' = IF epoch + 1 = MAX_EPOCHS THEN "fold_exit" ELSE "epoch_loop"
    /\ UNCHANGED <<evalVars, cfgVars, corpusVars, cvVars, mainVars>>

\* the epoch loop with a snapshot that aliases the live parameters
TrainFoldEpoch_AliasedSnapshot(train_loss, val_acc) ==
    /\ pc = "epoch_loop"
    /\ epoch < MAX_EPOCHS
    /\ LET trained == <<fold, epoch + 1>>
           es == EarlyStoppingCall(early_stopping, val_acc, trained)
       IN /\ model' = trained
          /\ history' = Append(history, val_acc)
          /\ train_loss_history' = Append(train_loss_history, train_loss)
          /\ best_val_acc' = IF val_acc > best_val_acc THEN val_acc ELSE best_val_acc
          /\ early_stopping' = [es EXCEPT !.best_model_state = trained]
          /\ best_score_epoch' = IF es.best_score # early_stopping.best_score
                                 THEN epoch + 1 ELSE best_score_epoch
          /\ epoch' = epoch + 1
          /\ pc' = IF es.early_stop \/ epoch + 1 = MAX_EPOCHS
                   THEN "fold_exit" ELSE "epoch_loop"
    /\ UNCHANGED <<evalVars, cfgVars, corpusVars, cvVars, mainVars>>

\* one iteration of `for epoch in range(config.MAX_EPOCHS)`: train_epoch,
\* evaluate (validation accuracy val_acc), history, best tracking, early stop
TrainFoldEpoch(train_loss, val_acc) ==
    /\ pc = "epoch_loop"
    /\ epoch < MAX_EPOCHS
    /\ LET trained == <<fold, epoch + 1>>
           es == EarlyStoppingCall(early_stopping, val_acc, trained)
       IN /\ model' = trained
          /\ history' = Append(history, val_acc)
          /\ train_loss_history' = Append(train_loss_history, train_loss)
          /\ best_val_acc' = IF val_acc > best_val_acc THEN val_acc ELSE best_val_acc
          /\ early_stopping' = es
          /\ best_score_epoch' = IF es.best_score # early_stopping.best_score
                                 THEN epoch + 1 ELSE best_score_epoch
          /\ epoch' = epoch + 1
          /\ pc' = IF es.early_stop \/ epoch + 1 = MAX_EPOCHS
                   THEN "fold_exit" ELSE "epoch_loop"
    /\ UNCHANGED <<evalVars, cfgVars, corpusVars, cvVars, mainVars>>

\* train_fold returning without restoring the best snapshot
TrainFoldReturn_NoRestore ==
    /\ pc = "fold_exit"
    /\ pc' = "fold_returned"
    /\ UNCHANGED <<evalVars, cfgVars, corpusVars, cvVars, mainVars, foldVars>>

\* after the loop: model.load_state_dict(early_stopping.best_model_state);
\* return model, history, early_stopping.best_score
TrainFoldReturn ==
    /\ pc = "fold_exit"
    /\ model' = early_stopping.best_model_state
    /\ pc' = "fold_returned"
    /\ UNCHANGED <<evalVars, cfgVars, corpusVars, cvVars, mainVars, epoch, early_stopping, history,
                   train_loss_history, best_val_acc, best_score_epoch>>

\* ---- run_cross_validation ----

\* the fold loop body saving every fold to one checkpoint path
CollectFold_SharedCheckpoint ==
    /\ pc = "fold_returned"
    /\ LET best_acc == early_stopping.best_score
       IN /\ checkpoints' = [checkpoints EXCEPT ![0] = model]
          /\ fold_results' = Append(fold_results,
                 [fold |-> fold + 1, best_val_accuracy |-> best_acc,
                  epochs_trained |-> Len(history)])
          /\ IF best_acc > best_fold_acc
             THEN /\ best_fold_acc' = best_acc
                  /\ best_fold' = fold
                  /\ best_model_state' = model
             ELSE UNCHANGED <<best_fold_acc, best_fold, best_model_state>>
    /\ fold' = fold + 1
    /\ pc' = IF fold + 1 = N_FOLDS THEN "cv_returned" ELSE "cv_loop"
    /\ UNCHANGED <<evalVars, cfgVars, corpusVars, foldVars, mainVars, train_fold_calls>>

\* the fold loop ending one fold early
CollectFold_OneFoldShort ==
    /\ pc = "fold_returned"
    /\ LET best_acc == early_stopping.best_score
       IN /\ checkpoints' = [checkpoints EXCEPT ![fold] = model]
          /\ fold_results' = Append(fold_results,
                 [fold |-> fold + 1, best_val_accuracy |-> best_acc,
                  epochs_trained |-> Len(history)])
          /\ IF best_acc > best_fold_acc
             THEN /\ best_fold_acc' = best_acc
                  /\ best_fold' = fold
                  /\ best_model_state' = model
             ELSE UNCHANGED <<best_fold_acc, best_fold, best_model_state>>
    /\ fold' = fold + 1
    /\ pc' = IF fold + 1 >= N_FOLDS - 1 THEN "cv_returned" ELSE "cv_loop"
    /\ UNCHANGED <<evalVars, cfgVars, corpusVars, foldVars, mainVars, train_fold_calls>>

\* the fold loop body recording the configured number of epochs
CollectFold_ConfiguredEpochs ==
    /\ pc = "fold_returned"
    /\ LET best_acc == early_stopping.best_score
       IN /\ checkpoints' = [checkpoints EXCEPT ![fold] = model]
          /\ fold_results' = Append(fold_results,
                 [fold |-> fold + 1, best_val_accuracy |-> best_acc,
                  epochs_trained |-> MAX_EPOCHS])
          /\ IF best_acc > best_fold_acc
             THEN /\ best_fold_acc' = best_acc
                  /\ best_fold' = fold
                  /\ best_model_state' = model
             ELSE UNCHANGED <<best_fold_acc, best_fold, best_model_state>>
    /\ fold' = fold + 1
    /\ pc' = IF fold + 1 = N_FOLDS THEN "cv_returned" ELSE "cv_loop"
    /\ UNCHANGED <<evalVars, cfgVars, corpusVars, foldVars, mainVars, train_fold_calls>>

\* rest of the fold loop body: save checkpoint, store results, track best fold
CollectFold ==
    /\ pc = "fold_returned"
    /\ LET best_acc == early_stopping.best_score
       IN /\ checkpoints' = [checkpoints EXCEPT ![fold] = model]
          /\ fold_results' = Append(fold_results,
                 [fold |-> fold + 1, best_val_accuracy |-> best_acc,
                  epochs_trained |-> Len(history)])
          /\ IF best_acc > best_fold_acc
             THEN /\ best_fold_acc' = best_acc
                  /\ best_fold' = fold
                  /\ best_model_state' = model
             ELSE UNCHANGED <<best_fold_acc, best_fold, best_model_state>>
    /\ fold' = fold + 1
    /\ pc' = IF fold + 1 = N_FOLDS THEN "cv_returned" ELSE "cv_loop"
    /\ UNCHANGED <<evalVars, cfgVars, corpusVars, foldVars, mainVars, train_fold_calls>>

\* ---- main ----

\* main after run_cross_validation returned: load_state_dict(best_model_state)
\* raises when best_model_state is None; otherwise save and test
MainFinish ==
    /\ pc = "cv_returned"
    /\ IF best_model_state = NoState
       THEN /\ pc' = "main_failed"
            /\ UNCHANGED mainVars
       ELSE /\ best_model_pt' = best_model_state
            /\ test_model' = best_model_state
            /\ pc' = "done"
    /\ UNCHANGED <<evalVars, cfgVars, corpusVars, cvVars, foldVars>>

\* locals of run_cross_validation, train_fold and main before the first fold
RunInit ==
    /\ fold = 0
    /\ fold_results = <<>>
    /\ best_fold = -1
    /\ best_fold_acc = 0
    /\ best_model_state = NoState
    /\ checkpoints = [f \in 0..(MaxFolds - 1) |-> NoState]
    /\ train_fold_calls = <<>>
    /\ epoch = 0
    /\ model = NoState
    /\ early_stopping = EarlyStoppingInit(EARLY_STOPPING_PATIENCE)
    /\ history = <<>>
    /\ train_loss_history = <<>>
    /\ best_val_acc = 0
    /\ best_score_epoch = 0
    /\ best_model_pt = NoState
    /\ test_model = NoState

\* no corpus is modelled: the folds' data enter only through the scores
CorpusIdle ==
    /\ cv_label = <<>>
    /\ cv_label_id = <<>>
    /\ test_folds = <<>>

TrainInit ==
    /\ pc = "cv_loop"
    /\ RunInit
    /\ CorpusIdle

\* no evaluation script has been run
EvalIdle ==
    /\ CONFIDENCE_THRESHOLD = 0
    /\ labels = <<>>
    /\ predictions = <<>>
    /\ confidences = <<>>
    /\ dataset_sizes = <<>>
    /\ script = "none"
    /\ result = <<>>

Init ==
    /\ EARLY_STOPPING_PATIENCE \in 0..MaxPatience
    /\ MAX_EPOCHS \in 1..MaxEpochsBound
    /\ N_FOLDS \in 2..MaxFolds
    /\ TrainInit
    /\ EvalIdle

Next ==
    \/ TrainFoldStart
    \/ \E s \in Scores : TrainFoldEpoch(FiniteLoss, s)
    \/ TrainFoldReturn
    \/ CollectFold
    \/ MainFinish

\* training runs whose losses stay finite
Spec == Init /\ [][Next]_vars

\* training runs of two folds in which the program keeps taking its next step
InitTwoFolds ==
    /\ EARLY_STOPPING_PATIENCE \in 0..MaxPatience
    /\ MAX_EPOCHS \in 1..MaxEpochsBound
    /\ N_FOLDS = 2
    /\ TrainInit
    /\ EvalIdle

SpecTerminate == InitTwoFolds /\ [][Next]_vars /\ WF_vars(Next)

\* training runs in which an epoch's loss may diverge
InitDiverge ==
    /\ EARLY_STOPPING_PATIENCE = 1
    /\ MAX_EPOCHS = 2
    /\ N_FOLDS = 2
    /\ TrainInit
    /\ EvalIdle

NextDiverge ==
    \/ TrainFoldStart
    \/ \E l \in Losses : \E s \in Scores : TrainFoldEpoch(l, s)
    \/ TrainFoldReturn
    \/ CollectFold
    \/ MainFinish

SpecDiverge == InitDiverge /\ [][NextDiverge]_vars

\* ======================= corpus loading and fold partition =======================

\* a label of the CSV files that Config.LABEL2ID has no entry for
UnknownLabel == "greeting"
CsvLabels == {"save", "search", UnknownLabel}

\* the float pandas stores where Series.map finds no entry
NaN == -2

\* cv_df["label"].map(config.LABEL2ID): the mapped id, NaN for a missing key
SeriesMap(series, mapping) ==
    [i \in 1..Len(series) |->
        IF series[i] \in DOMAIN mapping THEN mapping[series[i]] ELSE NaN]

\* load_data: map the label column to label_id; nothing is validated
LoadData ==
    /\ pc = "load_data"
    /\ cv_label_id' = SeriesMap(cv_label, LABEL2ID)
    /\ pc' = "cv_split"
    /\ UNCHANGED <<cfgVars, cvVars, foldVars, mainVars, evalVars, cv_label, test_folds>>

\* ---- StratifiedKFold(n_splits, shuffle=True).split(texts, labels), as
\* ---- scikit-learn computes it for the call in run_cross_validation

\* index of the first occurrence of v in y
FirstIndex(y, v) ==
    CHOOSE j \in 1..Len(y) : y[j] = v /\ \A h \in 1..(j - 1) : y[h] # v

\* classes encoded by order of first appearance, 0-based
y_encoded(y) ==
    [j \in 1..Len(y) |->
        Cardinality({FirstIndex(y, y[h]) : h \in 1..(FirstIndex(y, y[j]) - 1)})]

n_classes(y) == Cardinality({y[j] : j \in 1..Len(y)})

\* np.bincount(y_encoded)
y_counts(y) ==
    [c \in 0..(n_classes(y) - 1) |->
        Cardinality({j \in 1..Len(y) : y_encoded(y)[j] = c})]

\* np.sort(y_encoded)
y_order(y) ==
    [p \in 1..Len(y) |->
        CHOOSE c \in 0..(n_classes(y) - 1) :
            /\ Cardinality({j \in 1..Len(y) : y_encoded(y)[j] < c}) < p
            /\ p <= Cardinality({j \in 1..Len(y) : y_encoded(y)[j] <= c})]

\* allocation taken from the unsorted encoding, y_encoded[i::n_splits]
allocation_Unsorted(y, n_splits) ==
    [i \in 0..(n_splits - 1) |->
        [c \in 0..(n_classes(y) - 1) |->
            Cardinality({p \in 1..Len(y) :
                (p - 1) % n_splits = i /\ y_encoded(y)[p] = c})]]

\* allocation[i][c] = np.bincount(y_order[i::n_splits])[c]
allocation(y, n_splits) ==
    [i \in 0..(n_splits - 1) |->
        [c \in 0..(n_classes(y) - 1) |->
            Cardinality({p \in 1..Len(y) :
                (p - 1) % n_splits = i /\ y_order(y)[p] = c})]]

\* _make_test_folds: per class, the fold ids repeated by allocation and
\* shuffled are written to the rows of the class; every shuffle is possible
MakeTestFolds(y, n_splits) ==
    {tf \in [1..Len(y) -> 0..(n_splits - 1)] :
        \A c \in 0..(n_classes(y) - 1) : \A i \in 0..(n_splits - 1) :
            Cardinality({j \in 1..Len(y) : y_encoded(y)[j] = c /\ tf[j] = i})
                = allocation(y, n_splits)[i][c]}

\* split raises ValueError: y holds NaN, more splits than samples, or
\* n_splits greater than the number of members of every class; a single
\* class with fewer members than n_splits only draws a warning
SplitRaises(y, n_splits) ==
    \/ \E j \in 1..Len(y) : y[j] = NaN
    \/ n_splits > Len(y)
    \/ \A c \in 0..(n_classes(y) - 1) : n_splits > y_counts(y)[c]

\* val_idx and train_idx of fold i: test_folds == i and its complement
val_idx(i) == {j \in 1..Len(test_folds) : test_folds[j] = i}

\* a split whose training subset is the whole corpus
train_idx_WholeCorpus(i) == 1..Len(test_folds)

train_idx(i) == {j \in 1..Len(test_folds) : test_folds[j] # i}

\* skf.split(texts, labels) evaluated when the fold loop starts
StratifiedKFoldSplit ==
    /\ pc = "cv_split"
    /\ IF SplitRaises(cv_label_id, N_FOLDS)
       THEN /\ pc' = "split_failed"
            /\ UNCHANGED test_folds
       ELSE /\ test_folds' \in MakeTestFolds(cv_label_id, N_FOLDS)
            /\ pc' = "cv_loop"
    /\ UNCHANGED <<cfgVars, cvVars, foldVars, mainVars, evalVars, cv_label, cv_label_id>>

\* the CSV files' label column
CorpusInit ==
    /\ \E n \in 1..MaxCorpus : cv_label \in [1..n -> CsvLabels]
    /\ cv_label_id = <<>>
    /\ test_folds = <<>>

\* main from load_data on, with a short training configuration
InitCorpus ==
    /\ EARLY_STOPPING_PATIENCE = 0
    /\ MAX_EPOCHS = 1
    /\ N_FOLDS = 2
    /\ pc = "load_data"
    /\ RunInit
    /\ CorpusInit
    /\ EvalIdle

NextCorpus ==
    \/ LoadData
    \/ StratifiedKFoldSplit
    \/ Next

SpecCorpus == InitCorpus /\ [][NextCorpus]_vars

\* load_data and the partition alone, for every fold count
InitSplit ==
    /\ EARLY_STOPPING_PATIENCE = 0
    /\ MAX_EPOCHS = 1
    /\ N_FOLDS \in 2..MaxSplits
    /\ pc = "load_data"
    /\ RunInit
    /\ CorpusInit
    /\ EvalIdle

NextSplit ==
    \/ LoadData
    \/ StratifiedKFoldSplit

SpecSplit == InitSplit /\ [][NextSplit]_vars

\* ======================= evaluation scripts =======================

\* sklearn accuracy_score(y_true, y_pred) as the fraction <<correct, total>>
accuracy_score(y_true, y_pred) ==
    <<Cardinality({i \in 1..Len(y_true) : y_true[i] = y_pred[i]}), Len(y_true)>>

\* the threshold loop with the comparison written `conf <= threshold`
evaluate_adjusted_preds_Inclusive(all_preds, all_confidences, threshold) ==
    [i \in 1..Min(Len(all_preds), Len(all_confidences)) |->
        IF all_confidences[i] <= threshold
        THEN LABEL2ID.unclear
        ELSE all_preds[i]]

\* the threshold loop with the comparison inverted, `conf > threshold`
evaluate_adjusted_preds_Inverted(all_preds, all_confidences, threshold) ==
    [i \in 1..Min(Len(all_preds), Len(all_confidences)) |->
        IF all_confidences[i] > threshold
        THEN LABEL2ID.unclear
        ELSE all_preds[i]]

\* the threshold loop with a wrong fallback id, the next label id
evaluate_adjusted_preds_WrongFallback(all_preds, all_confidences, threshold) ==
    [i \in 1..Min(Len(all_preds), Len(all_confidences)) |->
        IF all_confidences[i] < threshold
        THEN (all_preds[i] + 1) % NUM_LABELS
        ELSE all_preds[i]]

\* train_intent_classifier.evaluate: "Apply confidence threshold" loop
evaluate_adjusted_preds(all_preds, all_confidences, threshold) ==
    [i \in 1..Min(Len(all_preds), Len(all_confidences)) |->
        IF all_confidences[i] < threshold
        THEN LABEL2ID.unclear
        ELSE all_preds[i]]

\* evaluate_adversarial.evaluate: "Apply confidence threshold" loop
adversarial_adjusted_predictions(preds, confs, threshold) ==
    [i \in 1..Min(Len(preds), Len(confs)) |->
        IF confs[i] < threshold
        THEN LABEL2ID.unclear
        ELSE preds[i]]

\* the per-dataset threshold loop falling back to the first label, save
evaluate_dataset_adjusted_predictions_FallbackSave(preds, confs, threshold) ==
    [i \in 1..Min(Len(preds), Len(confs)) |->
        IF confs[i] < threshold
        THEN LABEL2ID.save
        ELSE preds[i]]

\* evaluate_combined.evaluate_dataset: "Adjusted accuracy" loop
evaluate_dataset_adjusted_predictions(preds, confs, threshold) ==
    [i \in 1..Min(Len(preds), Len(confs)) |->
        IF confs[i] < threshold
        THEN LABEL2ID.unclear
        ELSE preds[i]]

\* the pooled threshold loop with the comparison inverted, `conf > threshold`
evaluate_combined_adjusted_predictions_Inverted(all_predictions, all_confidences, threshold) ==
    [i \in 1..Min(Len(all_predictions), Len(all_confidences)) |->
        IF all_confidences[i] > threshold
        THEN LABEL2ID.unclear
        ELSE all_predictions[i]]

\* evaluate_combined.evaluate_combined: "Combined adjusted accuracy" loop
evaluate_combined_adjusted_predictions(all_predictions, all_confidences, threshold) ==
    [i \in 1..Min(Len(all_predictions), Len(all_confidences)) |->
        IF all_confidences[i] < threshold
        THEN LABEL2ID.unclear
        ELSE all_predictions[i]]

\* label_names in test_onnx_model / test_tflite_model
label_names == <<"save", "search", "reminder", "cancel_all", "cancel_specific", "unclear">>

\* test_onnx_model: predicted_label = label_names[np.argmax(probs)]
test_onnx_model_predicted_labels(preds) ==
    [i \in 1..Len(preds) |-> label_names[preds[i] + 1]]

\* test_tflite_model: predicted_label = label_names[np.argmax(output[0])]
test_tflite_model_predicted_labels(preds) ==
    [i \in 1..Len(preds) |-> label_names[preds[i] + 1]]

\* label names of a list of label ids
Names(ids) == [i \in 1..Len(ids) |-> ID2LABEL[ids[i]]]

\* sklearn unique_labels(y_true, y_pred)
unique_labels(y_true, y_pred) ==
    {y_true[i] : i \in 1..Len(y_true)} \cup {y_pred[i] : i \in 1..Len(y_pred)}

\* classification_report(y_true, y_pred, target_names=list(LABEL2ID.keys()))
\* without labels=: ValueError when the number of labels that occur differs
\* from the number of target names
classification_report_raises(y_true, y_pred) ==
    Cardinality(unique_labels(y_true, y_pred)) # Cardinality(DOMAIN LABEL2ID)

\* confusion_matrix(y_true, y_pred) without labels=: one row and column per
\* label that occurs, in sorted order; indexed from 0
confusion_matrix(y_true, y_pred) ==
    LET present == unique_labels(y_true, y_pred)
        n_labels == Cardinality(present)
        label_at(a) == CHOOSE l \in present :
                          Cardinality({m \in present : m < l}) = a
    IN [a \in 0..(n_labels - 1) |->
          [b \in 0..(n_labels - 1) |->
              Cardinality({i \in 1..Len(y_true) :
                  y_true[i] = label_at(a) /\ y_pred[i] = label_at(b)})]]

\* train_intent_classifier.evaluate and the rest of evaluate_on_test:
\* classification report, then the confusion matrix
TrainEvaluate ==
    /\ script = "none"
    /\ LET adjusted_preds == evaluate_adjusted_preds(predictions, confidences,
                                                     CONFIDENCE_THRESHOLD)
           raises == classification_report_raises(labels, predictions)
       IN result' = [accuracy |-> accuracy_score(labels, predictions),
                     adjusted_preds |-> adjusted_preds,
                     adjusted_accuracy |-> accuracy_score(labels, adjusted_preds),
                     emitted |-> Names(adjusted_preds),
                     failed |-> IF raises THEN "classification_report" ELSE "",
                     confusion_matrix |->
                         IF raises THEN <<>>
                         ELSE confusion_matrix(labels, predictions)]
    /\ script' = "train_intent_classifier"
    /\ UNCHANGED <<cfgVars, corpusVars, pc, cvVars, foldVars, mainVars,
                   CONFIDENCE_THRESHOLD, labels, predictions, confidences,
                   dataset_sizes>>

\* evaluate_adversarial.evaluate
EvaluateAdversarial ==
    /\ script = "none"
    /\ LET adjusted_predictions == adversarial_adjusted_predictions(
               predictions, confidences, CONFIDENCE_THRESHOLD)
           raises == classification_report_raises(labels, predictions)
       IN result' = [raw_accuracy |-> accuracy_score(labels, predictions),
                     adjusted_predictions |-> adjusted_predictions,
                     adjusted_accuracy |-> accuracy_score(labels, adjusted_predictions),
                     emitted |-> Names(adjusted_predictions),
                     failed |-> IF raises THEN "classification_report" ELSE "",
                     low_confidence_count |->
                         IF raises THEN None
                         ELSE Cardinality({i \in 1..Len(predictions) :
                                 confidences[i] < CONFIDENCE_THRESHOLD}),
                     confusion_matrix |->
                         IF raises THEN <<>>
                         ELSE confusion_matrix(labels, predictions)]
    /\ script' = "evaluate_adversarial"
    /\ UNCHANGED <<cfgVars, corpusVars, pc, cvVars, foldVars, mainVars,
                   CONFIDENCE_THRESHOLD, labels, predictions, confidences,
                   dataset_sizes>>

\* evaluate_combined.evaluate_dataset
evaluate_dataset(ds_labels, ds_predictions, ds_confidences, threshold) ==
    LET adjusted_predictions == evaluate_dataset_adjusted_predictions(
            ds_predictions, ds_confidences, threshold)
    IN [labels |-> ds_labels,
        predictions |-> ds_predictions,
        confidences |-> ds_confidences,
        raw_accuracy |-> accuracy_score(ds_labels, ds_predictions),
        adjusted_predictions |-> adjusted_predictions,
        adjusted_accuracy |-> accuracy_score(ds_labels, adjusted_predictions)]

RECURSIVE SeqSum(_)
SeqSum(s) == IF s = <<>> THEN 0 ELSE Head(s) + SeqSum(Tail(s))

RECURSIVE SeqProduct(_)
SeqProduct(s) == IF s = <<>> THEN 1 ELSE Head(s) * SeqProduct(Tail(s))

\* all_x = []; for res in results.values(): all_x.extend(res[x])
RECURSIVE Extend(_)
Extend(lists) == IF lists = <<>> THEN <<>> ELSE Head(lists) \o Extend(Tail(lists))

\* the rows of the k-th loaded dataset within the files' rows
DatasetRows(column, sizes, k) ==
    SubSeq(column, SeqSum(SubSeq(sizes, 1, k - 1)) + 1, SeqSum(SubSeq(sizes, 1, k)))

\* results[name] = evaluate_dataset(...) for every loaded dataset
evaluate_combined_results(sizes, threshold) ==
    [k \in 1..Len(sizes) |->
        evaluate_dataset(DatasetRows(labels, sizes, k),
                         DatasetRows(predictions, sizes, k),
                         DatasetRows(confidences, sizes, k), threshold)]

\* the combined accuracy taken as the mean of the datasets' accuracies
evaluate_combined_raw_accuracy_MeanOfDatasets(results) ==
    LET sizes == [k \in 1..Len(results) |-> results[k].raw_accuracy[2]]
    IN <<SeqSum([k \in 1..Len(results) |->
                    results[k].raw_accuracy[1] * (SeqProduct(sizes) \div sizes[k])]),
         Len(results) * SeqProduct(sizes)>>

\* combined_raw_accuracy = accuracy_score(all_labels, all_predictions)
evaluate_combined_raw_accuracy(results) ==
    accuracy_score(Extend([k \in 1..Len(results) |-> results[k].labels]),
                   Extend([k \in 1..Len(results) |-> results[k].predictions]))

\* all_errors: the rows whose raw prediction differs from the true label, in
\* row order (the row number stands for the text)
evaluate_combined_all_errors(all_labels, all_predictions, all_confidences) ==
    LET wrong == SelectSeq([i \in 1..Len(all_labels) |-> i],
                           LAMBDA i : all_labels[i] # all_predictions[i])
    IN [e \in 1..Len(wrong) |->
          [text |-> wrong[e],
           true |-> ID2LABEL[all_labels[wrong[e]]],
           predicted |-> ID2LABEL[all_predictions[wrong[e]]],
           confidence |-> all_confidences[wrong[e]]]]

\* error_types: errors grouped under the key "true -> predicted", keys in
\* order of first occurrence
evaluate_combined_error_types(all_errors) ==
    LET key(e) == <<e.true, e.predicted>>
        first == SelectSeq([e \in 1..Len(all_errors) |-> e],
                    LAMBDA e : \A d \in 1..(e - 1) : key(all_errors[d]) # key(all_errors[e]))
    IN [g \in 1..Len(first) |->
          [key |-> key(all_errors[first[g]]),
           errors |-> SelectSeq(all_errors,
                         LAMBDA e : key(e) = key(all_errors[first[g]]))]]

\* the groups listed in the order they were first seen
evaluate_combined_sorted_error_types_Unsorted(error_types) == error_types

\* sorted(error_types.items(), key=lambda x: -len(x[1])): larger groups
\* first, equal sizes in their original order
evaluate_combined_sorted_error_types(error_types) ==
    LET size(g) == Len(error_types[g].errors)
        place(g) == 1 + Cardinality({h \in 1..Len(error_types) :
                            \/ size(h) > size(g)
                            \/ size(h) = size(g) /\ h < g})
    IN [p \in 1..Len(error_types) |->
          error_types[CHOOSE g \in 1..Len(error_types) : place(g) = p]]

\* evaluate_combined.evaluate_combined: per-dataset evaluation, the pooled
\* accuracies over the concatenation, classification report, confusion
\* matrix and error breakdown
evaluate_combined(sizes, threshold) ==
    LET results == evaluate_combined_results(sizes, threshold)
        all_labels == Extend([k \in 1..Len(results) |-> results[k].labels])
        all_predictions == Extend([k \in 1..Len(results) |-> results[k].predictions])
        all_confidences == Extend([k \in 1..Len(results) |-> results[k].confidences])
        adjusted_predictions == evaluate_combined_adjusted_predictions(
            all_predictions, all_confidences, threshold)
        raises == classification_report_raises(all_labels, all_predictions)
        all_errors == evaluate_combined_all_errors(
            all_labels, all_predictions, all_confidences)
    IN [per_dataset |-> results,
        per_dataset_emitted |->
            Names(Extend([k \in 1..Len(results) |->
                             results[k].adjusted_predictions])),
        combined_raw_accuracy |-> evaluate_combined_raw_accuracy(results),
        adjusted_predictions |-> adjusted_predictions,
        combined_adjusted_accuracy |->
            accuracy_score(all_labels, adjusted_predictions),
        total_samples |-> Len(all_labels),
        emitted |-> Names(adjusted_predictions),
        failed |-> IF raises THEN "classification_report" ELSE "",
        confusion_matrix |->
            IF raises THEN <<>>
            ELSE confusion_matrix(all_labels, all_predictions),
        error_breakdown |->
            IF raises THEN <<>>
            ELSE evaluate_combined_sorted_error_types(
                     evaluate_combined_error_types(all_errors))]

\* evaluate_combined.py run as a script: evaluate_combined() on the files
EvaluateCombined ==
    /\ script = "none"
    /\ result' = evaluate_combined(dataset_sizes, CONFIDENCE_THRESHOLD)
    /\ script' = "evaluate_combined"
    /\ UNCHANGED <<cfgVars, corpusVars, pc, cvVars, foldVars, mainVars,
                   CONFIDENCE_THRESHOLD, labels, predictions, confidences,
                   dataset_sizes>>

\* convert_to_onnx.test_onnx_model: prints the raw predicted label
TestOnnxModel ==
    /\ script = "none"
    /\ LET predicted_labels == test_onnx_model_predicted_labels(predictions)
       IN result' = [correct |-> Cardinality({i \in 1..Len(labels) :
                                    predicted_labels[i] = ID2LABEL[labels[i]]}),
                     emitted |-> predicted_labels]
    /\ script' = "convert_to_onnx"
    /\ UNCHANGED <<cfgVars, corpusVars, pc, cvVars, foldVars, mainVars,
                   CONFIDENCE_THRESHOLD, labels, predictions, confidences,
                   dataset_sizes>>

\* convert_to_tflite.test_tflite_model: prints the raw predicted label
TestTfliteModel ==
    /\ script = "none"
    /\ result' = [emitted |-> test_tflite_model_predicted_labels(predictions)]
    /\ script' = "convert_to_tflite"
    /\ UNCHANGED <<cfgVars, corpusVars, pc, cvVars, foldVars, mainVars,
                   CONFIDENCE_THRESHOLD, labels, predictions, confidences,
                   dataset_sizes>>

\* true label ids of a dataset of n rows whose first row has label id first
DatasetLabels(n, first) == [i \in 1..n |-> (first + i - 1) % NUM_LABELS]

\* a dataset of 1..MaxExamples rows, the classifier's output on each row and
\* a configured threshold; no script has run yet
InitEval ==
    /\ EARLY_STOPPING_PATIENCE = 0
    /\ MAX_EPOCHS = 1
    /\ N_FOLDS = 2
    /\ TrainInit
    /\ CONFIDENCE_THRESHOLD \in Thresholds
    /\ \E n \in 1..MaxExamples :
          /\ \E first \in LabelIds : labels = DatasetLabels(n, first)
          /\ predictions \in [1..n -> LabelIds]
          /\ confidences \in [1..n -> Confidences]
          /\ dataset_sizes = <<n>>
    /\ script = "none"
    /\ result = <<>>

NextEval ==
    \/ TrainEvaluate
    \/ EvaluateAdversarial
    \/ EvaluateCombined
    \/ TestOnnxModel
    \/ TestTfliteModel

SpecEval == InitEval /\ [][NextEval]_vars

\* ---- evaluation under any configured threshold ----

\* Config.CONFIDENCE_THRESHOLD is a plain class attribute: any number can be
\* written there, also one below 0 or above 1
ConfigurableThresholds == (0 - 1)..(ConfScale + 1)

InitThreshold ==
    /\ EARLY_STOPPING_PATIENCE = 0
    /\ MAX_EPOCHS = 1
    /\ N_FOLDS = 2
    /\ TrainInit
    /\ CONFIDENCE_THRESHOLD \in ConfigurableThresholds
    /\ \E n \in 1..MaxExamples :
          /\ \E first \in LabelIds : labels = DatasetLabels(n, first)
          /\ predictions \in [1..n -> LabelIds]
          /\ confidences \in [1..n -> Confidences]
          /\ dataset_sizes = <<n>>
    /\ script = "none"
    /\ result = <<>>

SpecThreshold == InitThreshold /\ [][NextEval]_vars

\* ---- evaluation over several dataset files ----

\* evaluate_combined loads up to three files
MaxDatasets == 3

\* (true label id, raw predicted label id) of a dataset row
RowKinds == {<<LABEL2ID.save, LABEL2ID.save>>,
             <<LABEL2ID.save, LABEL2ID.search>>,
             <<LABEL2ID.reminder, LABEL2ID.cancel_all>>,
             <<LABEL2ID.unclear, LABEL2ID.cancel_specific>>}

\* up to MaxPooled rows spread over the loaded datasets, the classifier's
\* output on each row and a configured threshold. A file that does not
\* exist, and a user_test.csv without a non-empty row, is not loaded:
\* dataset_sizes lists the loaded ones, none when nothing is loaded
InitCombined ==
    /\ EARLY_STOPPING_PATIENCE = 0
    /\ MAX_EPOCHS = 1
    /\ N_FOLDS = 2
    /\ TrainInit
    /\ CONFIDENCE_THRESHOLD \in Thresholds
    /\ \E n \in 0..MaxPooled :
          /\ \E rows \in [1..n -> RowKinds] :
                /\ labels = [i \in 1..n |-> rows[i][1]]
                /\ predictions = [i \in 1..n |-> rows[i][2]]
          /\ confidences = [i \in 1..n |-> 1 + (i % ConfScale)]
          /\ \E d \in 0..MaxDatasets :
                /\ dataset_sizes \in [1..d -> 1..n]
                /\ SeqSum(dataset_sizes) = n
    /\ script = "none"
    /\ result = <<>>

NextCombined ==
    \/ TrainEvaluate
    \/ EvaluateAdversarial
    \/ EvaluateCombined

SpecCombined == InitCombined /\ [][NextCombined]_vars

\* ======================= claims: fold trainer =======================

\* history never improved on its first entry by at least min_delta
NeverImproves(h) ==
    \A i \in 2..Len(h) : h[i] < h[1] + MinDelta

\* C1: the accuracy train_fold returns as the fold's best
\* (early_stopping.best_score, recorded as best_val_accuracy) equals the
\* maximum validation accuracy over all epochs run in the fold.
C1_BestScoreIsMax ==
    pc = "fold_returned" => early_stopping.best_score = SeqMax(history)

\* C2: on every exit of the epoch loop the model train_fold returns holds the
\* parameters snapshotted at the epoch where best_score was last set, and the
\* returned best_score is the validation accuracy of that same epoch; the
\* final-epoch parameters are returned only if the final epoch set best_score.
C2_ReturnsBestSnapshot ==
    pc = "fold_returned" =>
        /\ best_score_epoch \in 1..Len(history)
        /\ model = <<fold, best_score_epoch>>
        /\ early_stopping.best_model_state = model
        /\ history[best_score_epoch] = early_stopping.best_score
        /\ (model = <<fold, Len(history)>> => best_score_epoch = Len(history))

\* a fold returned a snapshot taken in the middle of the run, after best_score
\* had been replaced once and with later epochs that did not replace it
C2_Witness ==
    /\ pc = "fold_returned"
    /\ best_score_epoch > 1
    /\ best_score_epoch < Len(history)
    /\ model = <<fold, best_score_epoch>>

\* C10 (as stated): when the validation accuracy never improves by at least
\* min_delta after the first epoch and patience+1 <= max_epochs, the fold
\* halts after exactly patience+1 epochs and no later epoch is run.
C10_StopsAfterPatiencePlusOne ==
    (NeverImproves(history) /\ EARLY_STOPPING_PATIENCE + 1 <= MAX_EPOCHS) =>
        /\ Len(history) <= EARLY_STOPPING_PATIENCE + 1
        /\ (pc = "fold_exit" => Len(history) = EARLY_STOPPING_PATIENCE + 1)

\* C10 (amended): the same, for patience >= 1.
C10_StopsAfterPatiencePlusOne_Amended ==
    (/\ EARLY_STOPPING_PATIENCE >= 1
     /\ NeverImproves(history)
     /\ EARLY_STOPPING_PATIENCE + 1 <= MAX_EPOCHS) =>
        /\ Len(history) <= EARLY_STOPPING_PATIENCE + 1
        /\ (pc = "fold_exit" =>
              /\ Len(history) = EARLY_STOPPING_PATIENCE + 1
              /\ early_stopping.early_stop)

\* a fold stopped early on a flat score sequence with epochs still available
C10_Witness ==
    /\ pc = "fold_exit"
    /\ EARLY_STOPPING_PATIENCE >= 1
    /\ NeverImproves(history)
    /\ Len(history) = EARLY_STOPPING_PATIENCE + 1
    /\ Len(history) < MAX_EPOCHS
    /\ early_stopping.early_stop

\* ======================= claims: fold selection =======================

\* best_val_accuracy recorded for 0-based fold index f
FoldAcc(f) == fold_results[f + 1].best_val_accuracy

\* C3: after all k folds the winner is the fold with the greatest
\* best_val_accuracy, the lowest-indexed one among ties, so its accuracy is
\* >= every other fold's accuracy.
C3_WinnerIsFirstMax ==
    pc = "cv_returned" =>
        /\ best_fold \in 0..(N_FOLDS - 1)
        /\ \A j \in 0..(N_FOLDS - 1) :
              /\ FoldAcc(best_fold) >= FoldAcc(j)
              /\ (FoldAcc(j) = FoldAcc(best_fold) => best_fold <= j)

\* C4: run_cross_validation returns a winning fold index in 0..k-1 together
\* with that fold's model snapshot, for every combination of fold accuracies
\* including all zero, and main can load and save it.
C4_ReturnsWinnerSnapshot ==
    /\ pc = "cv_returned" =>
          /\ best_fold \in 0..(N_FOLDS - 1)
          /\ best_model_state # NoState
          /\ best_model_state = checkpoints[best_fold]
    /\ pc # "main_failed"

\* ======================= claims: decision rule =======================

\* indices of a list of label ids whose entry is 'unclear'
UnclearIdx(ids) == {i \in 1..Len(ids) : ids[i] = LABEL2ID.unclear}

\* C5: the emitted label is 'unclear' if confidence < threshold (strictly)
\* and the raw predicted label otherwise; confidence equal to the threshold
\* keeps the raw label; the result depends only on (label, confidence,
\* threshold).
C5_DecisionRule ==
    script = "train_intent_classifier" =>
        /\ Len(result.adjusted_preds) = Len(predictions)
        /\ \A i \in 1..Len(predictions) :
              /\ confidences[i] < CONFIDENCE_THRESHOLD =>
                    result.adjusted_preds[i] = LABEL2ID.unclear
              /\ confidences[i] >= CONFIDENCE_THRESHOLD =>
                    result.adjusted_preds[i] = predictions[i]
        /\ \A i, j \in 1..Len(predictions) :
              (predictions[i] = predictions[j] /\ confidences[i] = confidences[j])
                  => result.adjusted_preds[i] = result.adjusted_preds[j]

\* one prediction at exactly the threshold kept its label and another one
\* below the threshold was overridden
C5_Witness ==
    /\ script = "train_intent_classifier"
    /\ \E i, j \in 1..Len(predictions) :
          /\ confidences[i] = CONFIDENCE_THRESHOLD
          /\ predictions[i] # LABEL2ID.unclear
          /\ result.adjusted_preds[i] = predictions[i]
          /\ confidences[j] < CONFIDENCE_THRESHOLD
          /\ predictions[j] # LABEL2ID.unclear
          /\ result.adjusted_preds[j] = LABEL2ID.unclear

\* C6: every place that turns a classifier output into an emitted label
\* (training-script evaluate, adversarial evaluation, per-dataset and pooled
\* combined evaluation, converted-model inference checks) emits, for the same
\* (predicted label, confidence, threshold), the label the decision rule gives.
C6_SameRuleEverywhere ==
    script # "none" =>
        /\ result.emitted =
              Names(evaluate_adjusted_preds(predictions, confidences,
                                            CONFIDENCE_THRESHOLD))
        /\ (script = "evaluate_combined" =>
              result.per_dataset_emitted = result.emitted)

\* C7: threshold 0 is a pass-through (adjusted labels are the raw labels and
\* adjusted accuracy equals raw accuracy); threshold 1 gives 'unclear' for
\* every prediction whose confidence is not exactly 1.
C7_ThresholdExtremes ==
    script = "train_intent_classifier" =>
        /\ CONFIDENCE_THRESHOLD = 0 =>
              /\ result.adjusted_preds = predictions
              /\ result.adjusted_accuracy = result.accuracy
        /\ CONFIDENCE_THRESHOLD = ConfScale =>
              \A i \in 1..Len(predictions) :
                  confidences[i] # ConfScale =>
                      result.adjusted_preds[i] = LABEL2ID.unclear

\* at threshold 1 a prediction below confidence 1 was overridden while one
\* with confidence exactly 1 kept its label
C7_Witness ==
    /\ script = "train_intent_classifier"
    /\ CONFIDENCE_THRESHOLD = ConfScale
    /\ \E i, j \in 1..Len(predictions) :
          /\ confidences[i] < ConfScale
          /\ predictions[i] # LABEL2ID.unclear
          /\ result.adjusted_preds[i] = LABEL2ID.unclear
          /\ confidences[j] = ConfScale
          /\ result.adjusted_preds[j] = predictions[j]

\* C8: for a fixed list of predictions the set of examples whose final label
\* is 'unclear' grows with the threshold, so their count is non-decreasing.
C8_ThresholdMonotone ==
    script = "evaluate_combined" =>
        \A t \in Thresholds :
            LET other == evaluate_combined_adjusted_predictions(
                             predictions, confidences, t)
                here == result.adjusted_predictions
            IN /\ t >= CONFIDENCE_THRESHOLD =>
                     /\ UnclearIdx(here) \subseteq UnclearIdx(other)
                     /\ Cardinality(UnclearIdx(here)) <= Cardinality(UnclearIdx(other))
               /\ t <= CONFIDENCE_THRESHOLD =>
                     /\ UnclearIdx(other) \subseteq UnclearIdx(here)
                     /\ Cardinality(UnclearIdx(other)) <= Cardinality(UnclearIdx(here))

\* some examples are 'unclear' at the configured threshold and strictly more
\* are at a higher threshold
C8_Witness ==
    /\ script = "evaluate_combined"
    /\ UnclearIdx(result.adjusted_predictions) # {}
    /\ \E t \in Thresholds :
          /\ t > CONFIDENCE_THRESHOLD
          /\ Cardinality(UnclearIdx(evaluate_combined_adjusted_predictions(
                 predictions, confidences, t)))
               > Cardinality(UnclearIdx(result.adjusted_predictions))

\* C9: applying the rule again to its own output (as the predicted labels,
\* with the original confidences and the same threshold) returns that output.
C9_Idempotent ==
    script = "train_intent_classifier" =>
        evaluate_adjusted_preds(result.adjusted_preds, confidences,
                                CONFIDENCE_THRESHOLD) = result.adjusted_preds

\* the rule overrode one prediction and kept another, and was re-applied
C9_Witness ==
    /\ script = "train_intent_classifier"
    /\ \E i, j \in 1..Len(predictions) :
          /\ predictions[i] # LABEL2ID.unclear
          /\ result.adjusted_preds[i] = LABEL2ID.unclear
          /\ predictions[j] # LABEL2ID.unclear
          /\ result.adjusted_preds[j] = predictions[j]
    /\ evaluate_adjusted_preds(result.adjusted_preds, confidences,
                               CONFIDENCE_THRESHOLD) = result.adjusted_preds

\* ======================= claims: cross-validation loop =======================

\* C12: each fold's restored best snapshot is written to its own fold-indexed
\* checkpoint after the fold's training ends and before the next fold starts:
\* at any moment the folds below the current one have a checkpoint of their
\* own parameters, no later fold has one, and writing a fold's checkpoint
\* stores that fold's best snapshot and leaves the other checkpoints alone.
C12_FoldCheckpoints ==
    /\ [](\A f \in 0..(MaxFolds - 1) :
            /\ f < fold => (checkpoints[f] # NoState /\ checkpoints[f][1] = f)
            /\ f >= fold => checkpoints[f] = NoState)
    /\ [][(pc = "fold_returned" /\ pc' # pc) =>
            /\ checkpoints'[fold] = early_stopping.best_model_state
            /\ \A f \in 0..(MaxFolds - 1) :
                  f # fold => checkpoints'[f] = checkpoints[f]]_vars

\* a later fold is training while the first fold's checkpoint is on disk
C12_Witness ==
    /\ pc = "epoch_loop"
    /\ fold >= 1
    /\ epoch >= 1
    /\ checkpoints[0] # NoState
    /\ checkpoints[0][1] = 0

\* C13: cross-validation with k folds calls train_fold exactly k times, once
\* per fold index 0..k-1 in increasing order, and returns exactly k fold
\* results, the i-th recording fold id i, that fold's best validation
\* accuracy and the number of epochs it ran.
C13_OneResultPerFold ==
    /\ [](pc = "cv_returned" =>
            /\ train_fold_calls = [i \in 1..N_FOLDS |-> i - 1]
            /\ Len(fold_results) = N_FOLDS
            /\ \A i \in 1..N_FOLDS : fold_results[i].fold = i)
    /\ [][(pc = "fold_returned" /\ pc' # pc) =>
            fold_results' = Append(fold_results,
                [fold |-> Len(train_fold_calls),
                 best_val_accuracy |-> early_stopping.best_score,
                 epochs_trained |-> epoch])]_vars

\* cross-validation returned with one result per fold
C13_Witness ==
    /\ pc = "cv_returned"
    /\ Len(fold_results) = N_FOLDS
    /\ Len(train_fold_calls) = N_FOLDS

\* ======================= claims: failure semantics of training =======================

\* C18: a non-finite training loss is fatal for the fold: once an epoch's
\* loss is non-finite the fold has failed, so the value is the last thing the
\* fold saw, it is not kept, and no further epoch runs.
C18_NonFiniteIsFatal ==
    \A i \in 1..Len(train_loss_history) :
        train_loss_history[i] = NonFiniteLoss => pc = "fold_failed"

\* ======================= claims: fold partition =======================

\* C14: the k validation folds are pairwise disjoint and their union is the
\* whole corpus; in each fold the training and validation subsets are
\* disjoint and together cover the corpus.
C14_PartitionComplete ==
    pc = "cv_loop" =>
        LET corpus == 1..Len(cv_label_id)
            folds == 0..(N_FOLDS - 1)
        IN /\ \A i \in folds : \A j \in folds :
                 i # j => val_idx(i) \cap val_idx(j) = {}
           /\ UNION {val_idx(i) : i \in folds} = corpus
           /\ \A i \in folds :
                 /\ train_idx(i) \cap val_idx(i) = {}
                 /\ train_idx(i) \cup val_idx(i) = corpus

\* a corpus of four rows partitioned into folds that hold rows
C14_Witness ==
    /\ pc = "cv_loop"
    /\ Len(test_folds) = 4
    /\ \A i \in 0..(N_FOLDS - 1) : val_idx(i) # {}

\* number of rows with label id L in validation fold i
LabelCountIn(rows, L) == Cardinality({j \in rows : cv_label_id[j] = L})

\* C15: for every label L and fold i the number of L-labelled rows in
\* validation fold i is n_L / k rounded down or up (n_L the label's count in
\* the corpus), so it is within 1 of n_L / k and exactly n_L / k when k
\* divides n_L.
C15_Stratified ==
    pc = "cv_loop" =>
        \A L \in LabelIds : \A i \in 0..(N_FOLDS - 1) :
            LET n_L == LabelCountIn(1..Len(cv_label_id), L)
                in_fold == LabelCountIn(val_idx(i), L)
            IN /\ n_L \div N_FOLDS <= in_fold
               /\ in_fold <= (n_L + N_FOLDS - 1) \div N_FOLDS

\* two labels with two rows each, interleaved, split in two folds
C15_Witness ==
    /\ pc = "cv_loop"
    /\ N_FOLDS = 2
    /\ cv_label_id = <<0, 1, 0, 1>>
    /\ \A i \in 0..1 : \A L \in 0..1 : LabelCountIn(val_idx(i), L) = 1

\* ======================= claims: data-integrity failures =======================

\* C19: when some label of the label set has fewer than k rows in the
\* cross-validation corpus, cross-validation fails before any fold's
\* training starts: train_fold is never called and no checkpoint is written.
C19_InsufficientDataIsFatal ==
    (/\ pc # "load_data"
     /\ \E L \in LabelIds :
           LabelCountIn(1..Len(cv_label_id), L) < N_FOLDS) =>
        /\ train_fold_calls = <<>>
        /\ \A f \in 0..(MaxFolds - 1) : checkpoints[f] = NoState

\* C20: load_data never returns a corpus holding a row without a valid label
\* id, so no such row reaches fold partitioning or training.
C20_LoadRejectsUnknownLabel ==
    pc # "load_data" =>
        \A j \in 1..Len(cv_label_id) : cv_label_id[j] \in LabelIds

\* ======================= claims: evaluation reports =======================

\* C11: the pooled raw accuracy of the combined evaluation is the sum of the
\* datasets' correctly predicted rows over the sum of the dataset sizes, and
\* the pooled adjusted accuracy is the same sum over the adjusted predictions;
\* neither is the mean of the per-dataset accuracies.
C11_PooledAccuracy ==
    script = "evaluate_combined" =>
        LET res == result.per_dataset
            total == SeqSum([k \in 1..Len(res) |-> res[k].raw_accuracy[2]])
        IN /\ total = SeqSum(dataset_sizes)
           /\ result.combined_raw_accuracy =
                 <<SeqSum([k \in 1..Len(res) |-> res[k].raw_accuracy[1]]), total>>
           /\ result.combined_adjusted_accuracy =
                 <<SeqSum([k \in 1..Len(res) |-> res[k].adjusted_accuracy[1]]), total>>

\* two datasets of different sizes whose pooled accuracy c/n differs from the
\* mean of their accuracies c1/n1 and c2/n2
C11_Witness ==
    /\ script = "evaluate_combined"
    /\ Len(dataset_sizes) = 2
    /\ dataset_sizes[1] # dataset_sizes[2]
    /\ LET c1 == result.per_dataset[1].raw_accuracy[1]
           n1 == result.per_dataset[1].raw_accuracy[2]
           c2 == result.per_dataset[2].raw_accuracy[1]
           n2 == result.per_dataset[2].raw_accuracy[2]
       IN /\ result.combined_raw_accuracy = <<c1 + c2, n1 + n2>>
          /\ (c1 * n2 + c2 * n1) * (n1 + n2) # 2 * n1 * n2 * (c1 + c2)

\* C16: every evaluator reports a confusion matrix of NUM_LABELS rows and
\* columns, also for a dataset in which some label is neither a true label
\* nor a raw prediction; entry [i][j] counts the rows with true label id i
\* and raw predicted label id j.
C16_ConfusionMatrixIsSquareOfLabelSet ==
    script \in {"train_intent_classifier", "evaluate_adversarial", "evaluate_combined"} =>
        LET cm == result.confusion_matrix
        IN /\ DOMAIN cm = LabelIds
           /\ \A i \in LabelIds :
                 /\ DOMAIN cm[i] = LabelIds
                 /\ \A j \in LabelIds :
                       cm[i][j] = Cardinality({r \in 1..Len(labels) :
                                      labels[r] = i /\ predictions[r] = j})

\* C17: when the combined evaluation reports its error breakdown, every
\* misclassified row is in exactly one group, the group of its (true label,
\* predicted label) pair, groups hold misclassified rows only, and the groups
\* are listed in order of non-increasing size.
C17_ErrorBreakdown ==
    (script = "evaluate_combined" /\ result.failed = "") =>
        LET groups == result.error_breakdown
            InGroup(g, r) == \E e \in 1..Len(groups[g].errors) :
                                groups[g].errors[e].text = r
        IN /\ \A r \in 1..Len(labels) :
                 IF labels[r] # predictions[r]
                 THEN /\ Cardinality({g \in 1..Len(groups) : InGroup(g, r)}) = 1
                      /\ \A g \in 1..Len(groups) :
                            InGroup(g, r) <=>
                                groups[g].key = <<ID2LABEL[labels[r]],
                                                  ID2LABEL[predictions[r]]>>
                 ELSE \A g \in 1..Len(groups) : ~InGroup(g, r)
           /\ \A g \in 1..Len(groups) :
                 Cardinality({r \in 1..Len(labels) : InGroup(g, r)})
                     = Len(groups[g].errors)
           /\ \A g \in 1..(Len(groups) - 1) :
                 Len(groups[g].errors) >= Len(groups[g + 1].errors)

\* a breakdown whose largest group was not the first one seen
C17_Witness ==
    /\ script = "evaluate_combined"
    /\ result.failed = ""
    /\ Len(result.error_breakdown) = 3
    /\ Len(result.error_breakdown[1].errors) = 2
    /\ result.error_breakdown[1].errors[1].text > 1
    /\ labels[1] # predictions[1]

\* ======================= claims: early stopping within a fold =======================

\* an epoch of the current fold has just run
EpochStep == pc = "epoch_loop" /\ epoch' = epoch + 1

\* C23: after each epoch with validation score s, if best_score is unset or
\* s >= best_score + min_delta then best_score becomes s, the current
\* parameters become the snapshot and the counter is 0; otherwise best_score
\* and the snapshot are unchanged and the counter grows by exactly 1.
C23_UpdateRule ==
    [][EpochStep =>
        LET s == history'[epoch']
            es == early_stopping
        IN IF es.best_score = None \/ s >= es.best_score + MinDelta
           THEN /\ early_stopping'.best_score = s
                /\ early_stopping'.best_model_state = model'
                /\ early_stopping'.counter = 0
           ELSE /\ early_stopping'.best_score = es.best_score
                /\ early_stopping'.best_model_state = es.best_model_state
                /\ early_stopping'.counter = es.counter + 1]_vars

\* a stale epoch followed by an improving one: first score kept, second
\* score within min_delta of it, third score a new best
C23_Witness ==
    /\ Len(history) = 3
    /\ history[2] < history[1] + MinDelta
    /\ history[3] >= history[1] + MinDelta
    /\ early_stopping.best_score = history[3]
    /\ early_stopping.best_model_state = <<fold, 3>>
    /\ early_stopping.counter = 0

\* C24: in the epoch in which the counter reaches patience the fold leaves
\* the epoch loop at once and no further training or validation pass of the
\* fold runs; the fold never leaves the loop before max_epochs while the
\* counter is below patience.
C24_StopsWhenCounterReachesPatience ==
    /\ [][EpochStep =>
            /\ (/\ early_stopping.counter < EARLY_STOPPING_PATIENCE
                /\ early_stopping'.counter >= EARLY_STOPPING_PATIENCE)
                  => pc' = "fold_exit"
            /\ (pc' = "fold_exit" /\ epoch' < MAX_EPOCHS)
                  => early_stopping'.counter >= EARLY_STOPPING_PATIENCE]_vars
    /\ [][(pc = "fold_exit" \/ pc = "fold_returned") =>
            (history' = history /\ epoch' = epoch)]_vars

\* a fold stopped before max_epochs with the counter at patience
C24_Witness ==
    /\ pc = "fold_exit"
    /\ EARLY_STOPPING_PATIENCE >= 1
    /\ early_stopping.counter = EARLY_STOPPING_PATIENCE
    /\ early_stopping.early_stop
    /\ epoch < MAX_EPOCHS

\* C25: every fold terminates: the epoch loop, once entered, is left; it is
\* left after at least 1 and at most max_epochs epochs, either stopped early
\* (early_stop set, counter at patience or above) or, when early_stop is not
\* set, after exactly max_epochs epochs; and the recorded epochs_trained is
\* the number of epochs run.
C25_FoldTerminates ==
    /\ [](pc = "fold_exit" =>
            /\ 1 <= epoch /\ epoch <= MAX_EPOCHS
            /\ epoch = Len(history)
            /\ early_stopping.early_stop =>
                  early_stopping.counter >= EARLY_STOPPING_PATIENCE
            /\ ~early_stopping.early_stop => epoch = MAX_EPOCHS)
    /\ [][(pc = "fold_returned" /\ pc' # pc) =>
            fold_results'[Len(fold_results')].epochs_trained = epoch]_vars
    /\ (pc = "epoch_loop" ~> pc = "fold_exit")

\* a fold that ran all its epochs without the early-stop trigger, recorded
C25_Witness ==
    /\ pc = "cv_loop"
    /\ fold = 1
    /\ ~early_stopping.early_stop
    /\ MAX_EPOCHS >= 2
    /\ epoch = MAX_EPOCHS
    /\ fold_results[1].epochs_trained = MAX_EPOCHS

\* C26: an epoch that takes no new snapshot leaves the fold's snapshot as it
\* was although the live parameters change, restoring leaves it as it was,
\* and the cross-validation winner snapshot changes only in a step that
\* makes another fold the winner.
C26_SnapshotIsolation ==
    /\ [][(EpochStep /\ best_score_epoch' = best_score_epoch) =>
            /\ early_stopping'.best_model_state = early_stopping.best_model_state
            /\ model' # model]_vars
    /\ [][pc = "fold_exit" =>
            early_stopping'.best_model_state = early_stopping.best_model_state]_vars
    /\ [][best_fold' = best_fold => best_model_state' = best_model_state]_vars

\* the second fold has trained past its own snapshot while the first fold's
\* snapshot is the recorded winner
C26_Witness ==
    /\ fold = 1
    /\ best_fold = 0
    /\ best_model_state # NoState
    /\ best_model_state[1] = 0
    /\ epoch >= 2
    /\ early_stopping.best_model_state = <<1, 1>>
    /\ model = <<1, epoch>>

\* C28: after every epoch best_score does not decrease, it is at most the
\* logged best_val_acc, best_val_acc is the largest validation accuracy seen
\* in the fold, and that largest accuracy is below best_score + min_delta.
C28_TrackersStayClose ==
    /\ [](Len(history) >= 1 =>
            /\ early_stopping.best_score <= best_val_acc
            /\ best_val_acc = SeqMax(history)
            /\ best_val_acc < early_stopping.best_score + MinDelta)
    /\ [][(EpochStep /\ epoch >= 1) =>
            early_stopping'.best_score >= early_stopping.best_score]_vars

\* the two trackers disagree: a later score beat the first by less than
\* min_delta
C28_Witness ==
    /\ Len(history) >= 2
    /\ best_val_acc > early_stopping.best_score
    /\ best_val_acc = history[Len(history)]

C27_FinalArtifact ==
    /\ best_model_pt # NoState =>
          /\ fold = N_FOLDS
          /\ best_fold \in 0..(N_FOLDS - 1)
          /\ best_model_pt = checkpoints[best_fold]
          /\ test_model = best_model_pt
    /\ pc \in {"done", "main_failed"} => best_model_pt # NoState

\* ======================= claims: configuration and dataset files =======================

\* C21: a confidence threshold outside [0,1] is rejected before any
\* evaluation work: no script has produced a result, and so adjusted a
\* prediction, under a threshold outside [0,1].
C21_ThresholdInRange ==
    script # "none" => CONFIDENCE_THRESHOLD \in Thresholds

\* C22: when some of the three dataset files are absent, the combined
\* evaluation completes without failing, evaluates every loaded dataset and
\* pools exactly the loaded datasets' rows, also when nothing is loaded.
C22_AbsentFilesAreSkipped ==
    (script = "evaluate_combined" /\ Len(dataset_sizes) < MaxDatasets) =>
        /\ result.failed = ""
        /\ Len(result.per_dataset) = Len(dataset_sizes)
        /\ \A k \in 1..Len(dataset_sizes) :
              Len(result.per_dataset[k].labels) = dataset_sizes[k]
        /\ result.total_samples = SeqSum(dataset_sizes)

\* the adjustment of one row: true label, raw prediction, adjusted prediction
AdjustmentIsSound(true, raw, adjusted) ==
    /\ adjusted \in {raw, LABEL2ID.unclear}
    /\ raw = LABEL2ID.unclear => adjusted = LABEL2ID.unclear
    /\ (true = LABEL2ID.unclear /\ raw = true) => adjusted = true
    /\ (true # LABEL2ID.unclear /\ raw # true) => adjusted # true

\* C29: in the training script's evaluation and in the per-dataset
\* evaluation, every adjusted label is the raw label or 'unclear', a raw
\* 'unclear' stays 'unclear', a correct raw prediction of a row whose true
\* label is 'unclear' stays correct, and an incorrect raw prediction of a row
\* whose true label is not 'unclear' stays incorrect.
C29_AdjustmentOnlyMovesToUnclear ==
    /\ script = "train_intent_classifier" =>
          /\ Len(result.adjusted_preds) = Len(predictions)
          /\ \A i \in 1..Len(predictions) :
                AdjustmentIsSound(labels[i], predictions[i], result.adjusted_preds[i])
    /\ script = "evaluate_combined" =>
          \A k \in 1..Len(result.per_dataset) :
              LET res == result.per_dataset[k]
              IN /\ Len(res.adjusted_predictions) = Len(res.predictions)
                 /\ res.labels = DatasetRows(labels, dataset_sizes, k)
                 /\ res.predictions = DatasetRows(predictions, dataset_sizes, k)
                 /\ \A i \in 1..Len(res.predictions) :
                       AdjustmentIsSound(res.labels[i], res.predictions[i],
                                         res.adjusted_predictions[i])

\* a per-dataset evaluation in which the threshold rewrote a correct raw
\* 'unclear' on a row whose true label is 'unclear', and rewrote an incorrect
\* raw prediction on a row whose true label is not 'unclear'
C29_Witness ==
    /\ script = "evaluate_combined"
    /\ Len(result.per_dataset) = 1
    /\ LET res == result.per_dataset[1]
       IN \E i, j \in 1..Len(res.labels) :
             /\ res.labels[i] = LABEL2ID.unclear
             /\ res.predictions[i] = LABEL2ID.unclear
             /\ res.confidences[i] < CONFIDENCE_THRESHOLD
             /\ res.adjusted_predictions[i] = LABEL2ID.unclear
             /\ res.labels[j] # LABEL2ID.unclear
             /\ res.predictions[j] \notin {res.labels[j], LABEL2ID.unclear}
             /\ res.confidences[j] < CONFIDENCE_THRESHOLD
             /\ res.adjusted_predictions[j] = LABEL2ID.unclear

====
